---- MODULE Spec2Model ----
(***************************************************************************)
(* Model of AndroidDependencies (crosswalk-app-tools): the constructor's   *)
(* channel validation, findLocally, fetchVersions and download, together   *)
(* with the collaborators they drive (DownloadHandler, Downloader,         *)
(* IndexParser, the progress indicator) and the filesystem they act on.    *)
(***************************************************************************)
EXTENDS FiniteSets, Integers, Sequences, TLC

VARIABLES
    inst,      \* the resolver: NoInstance, or [channel |-> this._channel]
    ctor,      \* how the last constructor call ended
    env,       \* process.env.CROSSWALK_APP_TOOLS_CACHE_DIR
    fs,        \* paths of the regular files that exist
    tmp,       \* final paths whose download this call holds in a temporary artifact
    pc,        \* "idle" | "transfer" | "done" | "thrown"
    call,      \* the call in flight or just ended: [op, version, defaultPath]
    fsAtCall,  \* fs as it was when the call started
    log,       \* what the call did to its collaborators, in order
    cb,        \* arguments of the last completion callback invocation
    ret,       \* value returned by the last synchronous findLocally
    url,       \* url handed to the Downloader of this call
    prev,      \* the preceding call, when it was a download that fetched
    argv,      \* Main: the command line, [cmd, pos2, webp]
    sys,       \* Main: what the run finds, [appInit, template, platform, writable]
    mpc,       \* Main: "off" | "start" | what is awaited | "quiet" | "threw"
    mlog,      \* Main: what the run did, in order
    mcb,       \* Main: invocations of the top-level callback, [n, errno]
    config     \* Main: configuration handed to project.build

vars == <<inst, ctor, env, fs, tmp, pc, call, fsAtCall, log, cb, ret, url, prev>>

mvars == <<argv, sys, mpc, mlog, mcb, config>>
allvars == <<vars, mvars>>

(* ------------------------------ bounds --------------------------------- *)

\* Most progress notifications the Downloader delivers during one transfer.
MaxUpdates == 1

Versions == {"14.44.360.4", "15.44.384.13"}
\* Directories a caller passes as defaultPath.
DefaultPaths == {".", "..", "out", "cache"}

(* --------------------------- JavaScript values ------------------------- *)

JsUndefined == [t |-> "undefined"]
JsNull == [t |-> "null"]
Str(s) == [t |-> "string", s |-> s]
\* A path: the sequence of its components, as Path.join leaves them.
PathVal(p) == [t |-> "path", p |-> p]
ArrayVal(a) == [t |-> "array", a |-> a]

\* JavaScript truthiness of the values above.
Truthy(x) == /\ x.t \notin {"undefined", "null"}
             /\ ~(x.t = "string" /\ x.s = "")

BASE_URL == "https://download.01.org/crosswalk/releases/crosswalk/android/"
CHANNELS == <<"stable", "beta", "canary">>

\* CHANNELS.indexOf(channel): 0-based index, -1 when absent.
IndexOf(seq, x) ==
    IF \E i \in 1..Len(seq) : seq[i] = x
    THEN (CHOOSE i \in 1..Len(seq) :
              seq[i] = x /\ \A j \in 1..(i - 1) : seq[j] # x) - 1
    ELSE -1

\* What a caller may pass as channel.
ChannelArgs == {Str("stable"), Str("beta"), Str("canary"), Str("nightly"),
                Str(""), JsNull, JsUndefined}
\* What the environment variable may hold.
EnvValues == {JsUndefined, Str(""), Str("cache")}

NoInstance == [t |-> "none"]
NoCall == [op |-> "none", version |-> "", defaultPath |-> ""]
NoPrev == [t |-> "none"]
NoCallback == [n |-> 0, result |-> JsUndefined, errormsg |-> JsUndefined]

(* ------------------------------- paths --------------------------------- *)

\* "crosswalk-" + version + ".zip"
Filename(version) == "crosswalk-" \o version \o ".zip"

\* Path.join(dir, filename) for the directories used here: "" and "." name
\* the current directory and vanish from the joined path.
PathJoin(dir, filename) ==
    IF dir \in {"", "."} THEN <<filename>> ELSE <<dir, filename>>

\* "../" + filename
ParentOf(filename) == <<"..", filename>>

\* ShellJS.test("-f", path)
IsFile(path, files) == path \in files

AllPaths == {PathJoin(d, Filename(v)) : d \in DefaultPaths, v \in Versions}

(* --------------------------- constructor ------------------------------- *)

\* Lines 51-55: the constructor throws exactly when the channel is truthy
\* and not one of CHANNELS.
CtorThrows(channel) ==
    Truthy(channel) /\ IndexOf(CHANNELS, channel.s) = -1

\* Lines 51-58: this._channel after a constructor call that returned.
CtorChannel(channel) ==
    IF Truthy(channel) THEN channel ELSE JsUndefined

Idle == pc \in {"idle", "done", "thrown"}

\* new AndroidDependencies(application, channel)
Construct(channel) ==
    /\ Idle
    /\ inst = NoInstance
    /\ IF CtorThrows(channel)
       THEN /\ ctor' = "InvalidChannelError"
            /\ inst' = NoInstance
       ELSE /\ ctor' = "returned"
            /\ inst' = [t |-> "resolver", channel |-> CtorChannel(channel)]
    /\ UNCHANGED <<env, fs, tmp, pc, call, fsAtCall, log, cb, ret, url, prev>>

(* ---------------------------- findLocally ------------------------------ *)

FindLocally_ParentFirst(version, files) ==
    LET filename == Filename(version) IN
    IF IsFile(ParentOf(filename), files) THEN PathVal(ParentOf(filename))
    ELSE IF IsFile(<<filename>>, files) THEN PathVal(<<filename>>)
    ELSE JsNull

\* AndroidDependencies.prototype.findLocally: its return value.
FindLocally(version, files) ==
    LET filename == Filename(version) IN
    IF IsFile(<<filename>>, files) THEN PathVal(<<filename>>)
    ELSE IF IsFile(ParentOf(filename), files) THEN PathVal(ParentOf(filename))
    ELSE JsNull

\* The preceding call as the next one sees it: kept only when it was a
\* download that fetched the file and completed with a path.
Preceding ==
    IF /\ pc = "done" /\ call.op = "download"
       /\ \E i \in 1..Len(log) : log[i] = "handler.finish"
    THEN [t |-> "download", version |-> call.version,
          defaultPath |-> call.defaultPath, path |-> cb.result]
    ELSE NoPrev

\* A call of findLocally(version): synchronous, it returns at once.
CallFindLocally(version) ==
    /\ Idle
    /\ inst # NoInstance
    /\ prev' = Preceding
    /\ call' = [op |-> "findLocally", version |-> version, defaultPath |-> ""]
    /\ fsAtCall' = fs
    /\ ret' = FindLocally(version, fs)
    /\ pc' = "done"
    /\ log' = <<>>
    /\ cb' = NoCallback
    /\ url' = <<>>
    /\ tmp' = {}
    /\ UNCHANGED <<inst, ctor, env, fs>>

(* ------------------- collaborators of the resolver --------------------- *)

\* Number of occurrences of event e in sequence l.
Count(l, e) == Cardinality({i \in 1..Len(l) : l[i] = e})

\* Position of the first occurrence of e in l, 0 when absent.
FirstAt(l, e) ==
    IF \E i \in 1..Len(l) : l[i] = e
    THEN CHOOSE i \in 1..Len(l) : l[i] = e /\ \A j \in 1..(i - 1) : l[j] # e
    ELSE 0

\* DownloadHandler.findLocally(localDirs): the first directory of the list
\* that holds the file decides; null when none does.
HandlerFindLocally(localDirs, filename, files) ==
    LET hits == {i \in 1..Len(localDirs) :
                     IsFile(PathJoin(localDirs[i], filename), files)}
    IN  IF hits = {} THEN JsNull
        ELSE LET first == CHOOSE i \in hits : \A j \in hits : i <= j
             IN  PathVal(PathJoin(localDirs[first], filename))

\* DownloadHandler.createStream(): fails with FileCreationFailed when the
\* file cannot be created in the destination directory.
CreateStreamThrows(writable) == ~writable

\* DownloadHandler.createStream(): the transfer is written to a temporary
\* artifact, here named by the final path it stands for.
TmpAfterCreateStream(defaultPath, filename, temps) ==
    temps \cup {PathJoin(defaultPath, filename)}

\* DownloadHandler.finish(cacheDir): the path of the finalized file.
FinishedPath(defaultPath, filename) ==
    PathVal(PathJoin(defaultPath, filename))

\* DownloadHandler.finish(cacheDir): the temporary artifact is renamed into
\* place and, when cacheDir names a directory, also copied into it.
FsAfterFinish(defaultPath, filename, cacheDir, files) ==
    files \cup {PathJoin(defaultPath, filename)}
          \cup (IF Truthy(cacheDir)
                THEN {PathJoin(cacheDir.s, filename)} ELSE {})

\* DownloadHandler.finish(cacheDir): the temporary artifact is gone.
TmpAfterFinish(defaultPath, filename, temps) ==
    temps \ {PathJoin(defaultPath, filename)}

\* What the Downloader hands its completion callback: nothing on success,
\* an error message otherwise.
TransferOutcomes == {JsUndefined, JsNull, Str("Download failed: ETIMEDOUT")}

\* Bodies of the channel's listing page, as version lists.
Listings == {<<>>, <<"14.44.360.4">>, <<"14.44.360.4", "15.44.384.13">>}

\* The Downloader's completion, as the log records it before the handler
\* the resolver registered runs.
TransferEnd(errormsg) ==
    IF Truthy(errormsg) THEN "transfer.failed" ELSE "transfer.ok"

\* new IndexParser(buffer).parse()
IndexParse(buffer) == ArrayVal(buffer)

(* ----------------------------- fetchVersions --------------------------- *)

\* this._channel inside a string concatenation.
ChannelText(channel) ==
    IF channel.t = "string" THEN channel.s ELSE channel.t

\* Line 86: BASE_URL + this._channel + "/"
IndexUrl(channel) == BASE_URL \o ChannelText(channel) \o "/"

\* Lines 158-161
DownloadUrl(channel, version) ==
    BASE_URL \o ChannelText(channel) \o "/" \o version \o "/"
             \o Filename(version)

\* callback(result, errormsg): one more invocation of the caller's callback.
Invoke(result, errormsg) ==
    [n |-> cb.n + 1, result |-> result, errormsg |-> errormsg]

\* fetchVersions(callback), up to its return: the Downloader is created on
\* a memory stream and its one request is issued.
CallFetchVersions ==
    /\ Idle
    /\ inst # NoInstance
    /\ prev' = Preceding
    /\ call' = [op |-> "fetchVersions", version |-> "", defaultPath |-> ""]
    /\ fsAtCall' = fs
    /\ url' = <<IndexUrl(inst.channel)>>
    /\ log' = <<"downloader.new", "indicator.create", "downloader.get">>
    /\ cb' = NoCallback
    /\ pc' = "transfer"
    /\ tmp' = {}
    /\ ret' = JsUndefined
    /\ UNCHANGED <<inst, ctor, env, fs>>

\* Line 108: if (errormsg)
FetchFailed(errormsg) == Truthy(errormsg)

\* Line 110: the error message handed on to the caller
FetchErrorArg(errormsg) == errormsg

FetchGetCb_CallbackFirst(errormsg, body) ==
    /\ pc = "transfer"
    /\ call.op = "fetchVersions"
    /\ IF FetchFailed(errormsg)
       THEN /\ cb' = Invoke(JsNull, FetchErrorArg(errormsg))
            /\ log' = log \o <<TransferEnd(errormsg), "callback", "indicator.done">>
       ELSE /\ cb' = Invoke(IndexParse(body), JsUndefined)
            /\ log' = log \o <<TransferEnd(errormsg), "callback", "indicator.done">>
    /\ pc' = "done"
    /\ UNCHANGED <<inst, ctor, env, fs, tmp, call, fsAtCall, ret, url, prev>>

\* Lines 104-119: the completion handler fetchVersions gives downloader.get.
FetchGetCb(errormsg, body) ==
    /\ pc = "transfer"
    /\ call.op = "fetchVersions"
    /\ IF FetchFailed(errormsg)
       THEN /\ cb' = Invoke(JsNull, FetchErrorArg(errormsg))
            /\ log' = log \o <<TransferEnd(errormsg), "indicator.done", "callback">>
       ELSE /\ cb' = Invoke(IndexParse(body), JsUndefined)
            /\ log' = log \o <<TransferEnd(errormsg), "indicator.done",
                              "IndexParser.parse", "callback">>
    /\ pc' = "done"
    /\ UNCHANGED <<inst, ctor, env, fs, tmp, call, fsAtCall, ret, url, prev>>

\* Lines 100-102 and 181-183: downloader.progress -> indicator.update
Progress ==
    /\ pc = "transfer"
    /\ Count(log, "indicator.update") < MaxUpdates
    /\ log' = Append(log, "indicator.update")
    /\ UNCHANGED <<inst, ctor, env, fs, tmp, pc, call, fsAtCall, cb, ret, url, prev>>

(* ------------------------------- download ------------------------------ *)

LocalDirs_CwdFirst(defaultPath, cacheDir) ==
    <<"", defaultPath>> \o (IF Truthy(cacheDir) THEN <<cacheDir.s>> ELSE <<>>)

LocalDirs_NoDefaultPath(defaultPath, cacheDir) ==
    <<"">> \o (IF Truthy(cacheDir) THEN <<cacheDir.s>> ELSE <<>>)

\* Lines 165-167: the directories searched, in order.
LocalDirs(defaultPath, cacheDir) ==
    <<defaultPath, "">> \o (IF Truthy(cacheDir) THEN <<cacheDir.s>> ELSE <<>>)

UseCached_Never(localPath) == FALSE

\* Line 169: if (localPath)
UseCached(localPath) == Truthy(localPath)

\* download(version, defaultPath, callback), up to its return. writable
\* says whether the download file can be created in defaultPath.
CallDownload(version, defaultPath, writable) ==
    /\ Idle
    /\ inst # NoInstance
    /\ prev' = Preceding
    /\ call' = [op |-> "download", version |-> version,
                defaultPath |-> defaultPath]
    /\ fsAtCall' = fs
    /\ LET filename == Filename(version)
           localPath == HandlerFindLocally(LocalDirs(defaultPath, env),
                                           filename, fs)
       IN  IF UseCached(localPath)
           THEN /\ log' = <<"handler.findLocally", "output.info", "callback">>
                /\ cb' = [n |-> 1, result |-> localPath,
                          errormsg |-> JsUndefined]
                /\ pc' = "done"
                /\ url' = <<>>
                /\ tmp' = {}
           ELSE IF CreateStreamThrows(writable)
           THEN /\ log' = <<"handler.findLocally", "indicator.create",
                            "FileCreationFailed">>
                /\ cb' = NoCallback
                /\ pc' = "thrown"
                /\ url' = <<>>
                /\ tmp' = {}
           ELSE /\ log' = <<"handler.findLocally", "indicator.create",
                            "handler.createStream", "downloader.new",
                            "downloader.get">>
                /\ cb' = NoCallback
                /\ pc' = "transfer"
                /\ url' = <<DownloadUrl(inst.channel, version)>>
                /\ tmp' = TmpAfterCreateStream(defaultPath, filename, {})
    /\ ret' = JsUndefined
    /\ UNCHANGED <<inst, ctor, env, fs>>

DownloadFailed_Never(errormsg) == FALSE

\* Line 188: if (errormsg)
DownloadFailed(errormsg) == Truthy(errormsg)

ErrorArg_Dropped(errormsg) == JsUndefined

\* Line 190: the error message handed on to the caller
ErrorArg(errormsg) == errormsg

FinishCacheArg_Forgotten(cacheDir) == JsUndefined

\* Line 194: the argument of handler.finish
FinishCacheArg(cacheDir) == cacheDir

DownloadGetCb_Retry(errormsg) ==
    /\ pc = "transfer"
    /\ call.op = "download"
    /\ LET filename == Filename(call.version) IN
       IF DownloadFailed(errormsg)
       THEN IF Count(log, "downloader.get") < 2
            THEN /\ log' = log \o <<TransferEnd(errormsg), "downloader.new",
                                   "downloader.get">>
                 /\ UNCHANGED <<cb, fs, tmp, pc>>
            ELSE /\ log' = log \o <<TransferEnd(errormsg), "indicator.done",
                                   "callback">>
                 /\ cb' = Invoke(JsNull, ErrorArg(errormsg))
                 /\ pc' = "done"
                 /\ UNCHANGED <<fs, tmp>>
       ELSE /\ log' = log \o <<TransferEnd(errormsg), "indicator.done",
                              "handler.finish", "callback">>
            /\ fs' = FsAfterFinish(call.defaultPath, filename,
                                   FinishCacheArg(env), fs)
            /\ tmp' = TmpAfterFinish(call.defaultPath, filename, tmp)
            /\ cb' = Invoke(FinishedPath(call.defaultPath, filename),
                            JsUndefined)
            /\ pc' = "done"
    /\ UNCHANGED <<inst, ctor, env, call, fsAtCall, ret, url, prev>>

\* Lines 184-197: the completion handler download gives downloader.get.
DownloadGetCb(errormsg) ==
    /\ pc = "transfer"
    /\ call.op = "download"
    /\ LET filename == Filename(call.version) IN
       IF DownloadFailed(errormsg)
       THEN /\ log' = log \o <<TransferEnd(errormsg), "indicator.done",
                              "callback">>
            /\ cb' = Invoke(JsNull, ErrorArg(errormsg))
            /\ UNCHANGED <<fs, tmp>>
       ELSE /\ log' = log \o <<TransferEnd(errormsg), "indicator.done",
                              "handler.finish", "callback">>
            /\ fs' = FsAfterFinish(call.defaultPath, filename,
                                   FinishCacheArg(env), fs)
            /\ tmp' = TmpAfterFinish(call.defaultPath, filename, tmp)
            /\ cb' = Invoke(FinishedPath(call.defaultPath, filename),
                            JsUndefined)
    /\ pc' = "done"
    /\ UNCHANGED <<inst, ctor, env, call, fsAtCall, ret, url, prev>>

(* -------------------------------- Main --------------------------------- *)

MAIN_EXIT_CODE_OK == 0
MAIN_EXIT_CODE_ERROR == 127

\* process.argv[2]: "" stands for no command given (argv.length < 3).
Commands == {"", "bogus", "create", "update", "build", "help", "version"}
\* The second positional argument, "" when absent.
SecondPositionals == {"", "release", "debug"}
\* args["android-webp"]
WebPArgs == {JsUndefined, Str("80 80 80")}

NoArgv == [cmd |-> "", pos2 |-> "", webp |-> JsUndefined]
NoSys == [appInit |-> TRUE, template |-> TRUE, platform |-> TRUE,
          writable |-> TRUE]
NoMainCallback == [n |-> 0, errno |-> -1]

\* parser.getCommand(): the command when it is a known one, else null.
GetCommand(cmd) ==
    IF cmd \in {"create", "update", "build", "help", "version"}
    THEN Str(cmd) ELSE JsNull

\* Minimist(process.argv.slice(2))._ : the positional arguments.
Positionals(a) ==
    IF a.pos2 = "" THEN <<a.cmd>> ELSE <<a.cmd, a.pos2>>

\* Lines 586-591: configId is set to "debug"; the second positional is
\* read into target, and "release" is assigned to target, never to configId.
BuildConfigId(positionals) ==
    LET configId == "debug"
        target == IF 2 = Len(positionals)
                  THEN IF "release" = positionals[Len(positionals)]
                       THEN "release"
                       ELSE positionals[Len(positionals)]
                  ELSE ""
    IN  configId

\* Lines 376-383: loadDefault() yielding nothing takes the else branch,
\* whose message reads platformInfo.platformId of that nothing: a TypeError.
InstantiatePlatformThrows(s) == ~s.platform

\* What a synchronous stretch of Main leaves behind.
Outcome(threw, p, l, n, errno, c) ==
    [threw |-> threw, pc |-> p, log |-> l, n |-> n, errno |-> errno,
     config |-> c]

\* Lines 419-458: Main.prototype.create, up to its return.
CreateBody(s) ==
    IF ~s.template
    THEN Outcome(FALSE, "quiet", <<"Main.create", "output.error", "callback">>,
                 1, MAIN_EXIT_CODE_ERROR, "")
    ELSE IF InstantiatePlatformThrows(s)
    THEN Outcome(TRUE, "threw", <<"Main.create", "TypeError">>, 0, -1, "")
    ELSE Outcome(FALSE, "project.create", <<"Main.create", "project.create">>,
                 0, -1, "")

\* Lines 467-496: Main.prototype.update, up to its return.
UpdateBody(s) ==
    IF InstantiatePlatformThrows(s)
    THEN Outcome(TRUE, "threw", <<"Main.update", "TypeError">>, 0, -1, "")
    ELSE Outcome(FALSE, "project.update", <<"Main.update", "project.update">>,
                 0, -1, "")

\* Lines 558-637: Main.prototype.build, up to its return.
BuildBody(a, s) ==
    IF InstantiatePlatformThrows(s)
    THEN Outcome(TRUE, "threw", <<"Main.build", "TypeError">>, 0, -1, "")
    ELSE IF Truthy(a.webp)
    THEN IF CreateStreamThrows(s.writable)
         THEN Outcome(TRUE, "threw",
                      <<"Main.build", "importWebP", "FileCreationFailed">>,
                      0, -1, "")
         ELSE Outcome(FALSE, "importWebP", <<"Main.build", "importWebP">>,
                      0, -1, "")
    ELSE Outcome(FALSE, "project.build", <<"Main.build", "project.build">>,
                 0, -1, BuildConfigId(Positionals(a)))

\* Lines 728-736 and 742-750: try { Application.call; method } catch.
Guarded(s, body) ==
    IF ~s.appInit
    THEN Outcome(FALSE, "quiet",
                 <<"Application threw", "output.error", "callback">>,
                 1, MAIN_EXIT_CODE_ERROR, "")
    ELSE IF body.threw
    THEN Outcome(FALSE, "quiet", body.log \o <<"output.error", "callback">>,
                 body.n + 1, MAIN_EXIT_CODE_ERROR, "")
    ELSE body

\* Lines 754-763: the same without a catch: what is thrown leaves run.
Unguarded(s, body) ==
    IF ~s.appInit
    THEN Outcome(TRUE, "threw", <<"Application threw">>, 0, -1, "")
    ELSE body

\* Lines 701-777: Main.prototype.run, up to its return.
RunBody(a, s) ==
    IF a.cmd = ""
    THEN Outcome(FALSE, "quiet", <<"printHelp", "callback">>,
                 1, MAIN_EXIT_CODE_OK, "")
    ELSE IF ~Truthy(GetCommand(a.cmd))
    THEN Outcome(FALSE, "quiet", <<"output.error", "callback">>,
                 1, MAIN_EXIT_CODE_ERROR, "")
    ELSE CASE a.cmd = "create" -> Guarded(s, CreateBody(s))
           [] a.cmd = "update" -> Guarded(s, UpdateBody(s))
           [] a.cmd = "build" -> Unguarded(s, BuildBody(a, s))
           [] a.cmd = "help" ->
                  Outcome(FALSE, "quiet", <<"printHelp">>, 0, -1, "")
           [] a.cmd = "version" ->
                  Outcome(FALSE, "quiet", <<"printVersion">>, 0, -1, "")

\* Main.prototype.run(callback)
MainRun ==
    /\ mpc = "start"
    /\ LET r == RunBody(argv, sys) IN
       /\ mpc' = r.pc
       /\ mlog' = r.log
       /\ mcb' = [n |-> r.n, errno |-> r.errno]
       /\ config' = r.config
    /\ UNCHANGED <<argv, sys>>

\* The handler Main gives project.create, project.update and project.build
\* (lines 447-457, 485-495, 595-605): 127 on an error message, else 0.
ProjectDone(awaited, errormsg) ==
    /\ mpc = awaited
    /\ IF Truthy(errormsg)
       THEN /\ mlog' = mlog \o <<"project.failed", "output.error", "callback">>
            /\ mcb' = [n |-> mcb.n + 1, errno |-> MAIN_EXIT_CODE_ERROR]
       ELSE /\ mlog' = mlog \o <<"project.ok", "callback">>
            /\ mcb' = [n |-> mcb.n + 1, errno |-> MAIN_EXIT_CODE_OK]
    /\ mpc' = "quiet"
    /\ UNCHANGED <<argv, sys, config>>

\* Lines 447-457
ProjectCreateCb(errormsg) == ProjectDone("project.create", errormsg)
\* Lines 485-495
ProjectUpdateCb(errormsg) == ProjectDone("project.update", errormsg)
\* Lines 595-605
ProjectBuildCb(errormsg) == ProjectDone("project.build", errormsg)

\* Lines 622-627: the handler Main.build gives project.importWebP. A path
\* leads to the conversion and then the build; no path leads to nothing.
WebPImported(webpPath) ==
    IF Truthy(webpPath)
    THEN /\ mlog' = mlog \o <<"webp.path", "convertWebP", "project.build">>
         /\ config' = BuildConfigId(Positionals(argv))
         /\ mpc' = "project.build"
    ELSE /\ mlog' = Append(mlog, "webp.nopath")
         /\ config' = config
         /\ mpc' = "quiet"

\* project.importWebP hands the path downloadWebP reports to its caller.
ImportWebPResult(path) == path

\* Lines 254-264: downloadWebP's completion handler of downloader.get. An
\* error message is reported with a null path; otherwise the archive is
\* finalized and its extraction started.
WebPGetCb(errormsg) ==
    /\ mpc = "importWebP"
    /\ IF Truthy(errormsg)
       THEN WebPImported(ImportWebPResult(JsNull))
       ELSE /\ mlog' = mlog \o <<"handler.finish", "Targz.extract">>
            /\ mpc' = "webp.extract"
            /\ config' = config
    /\ UNCHANGED <<argv, sys, mcb>>

\* Lines 276-286: the extraction ends. Success arms the one-second timer;
\* a failure is written to the output and nothing else happens.
WebPExtracted(ok) ==
    /\ mpc = "webp.extract"
    /\ IF ok
       THEN mlog' = Append(mlog, "setTimeout") /\ mpc' = "webp.timer"
       ELSE mlog' = Append(mlog, "output.error") /\ mpc' = "quiet"
    /\ UNCHANGED <<argv, sys, mcb, config>>

\* Lines 278-282: the timer fires: cwebp is copied and its path reported.
WebPTimer ==
    /\ mpc = "webp.timer"
    /\ WebPImported(ImportWebPResult(PathVal(<<"src", "cwebp">>)))
    /\ UNCHANGED <<argv, sys, mcb>>

(* ------------------------------ the system ----------------------------- *)

Init ==
    /\ inst = NoInstance
    /\ ctor = "none"
    /\ env \in EnvValues
    /\ fs \in SUBSET AllPaths
    /\ tmp = {}
    /\ pc = "idle"
    /\ call = NoCall
    /\ fsAtCall = fs
    /\ log = <<>>
    /\ cb = NoCallback
    /\ ret = JsUndefined
    /\ url = <<>>
    /\ prev = NoPrev
    /\ argv = NoArgv
    /\ sys = NoSys
    /\ mpc = "off"
    /\ mlog = <<>>
    /\ mcb = NoMainCallback
    /\ config = ""

\* A step of the resolver; Main is not running.
Step(A) == A /\ UNCHANGED mvars

Next ==
    \/ \E channel \in ChannelArgs : Step(Construct(channel))
    \/ \E version \in Versions : Step(CallFindLocally(version))
    \/ Step(CallFetchVersions)
    \/ \E version \in Versions, defaultPath \in DefaultPaths,
          writable \in BOOLEAN :
              Step(CallDownload(version, defaultPath, writable))
    \/ Step(Progress)
    \/ \E errormsg \in TransferOutcomes, body \in Listings :
          Step(FetchGetCb(errormsg, body))
    \/ \E errormsg \in TransferOutcomes : Step(DownloadGetCb(errormsg))

Spec == Init /\ [][Next]_allvars

\* A run of Main on one command line; the resolver of Spec stays untouched.
MainInit ==
    /\ inst = NoInstance
    /\ ctor = "none"
    /\ env = JsUndefined
    /\ fs = {}
    /\ tmp = {}
    /\ pc = "idle"
    /\ call = NoCall
    /\ fsAtCall = {}
    /\ log = <<>>
    /\ cb = NoCallback
    /\ ret = JsUndefined
    /\ url = <<>>
    /\ prev = NoPrev
    /\ argv \in [cmd : Commands, pos2 : SecondPositionals, webp : WebPArgs]
    /\ sys \in [appInit : BOOLEAN, template : BOOLEAN, platform : BOOLEAN,
                 writable : BOOLEAN]
    /\ mpc = "start"
    /\ mlog = <<>>
    /\ mcb = NoMainCallback
    /\ config = ""

\* A step of Main; the resolver of Spec is not running.
MainStep(A) == A /\ UNCHANGED vars

MainNext ==
    \/ MainStep(MainRun)
    \/ \E errormsg \in TransferOutcomes : MainStep(ProjectCreateCb(errormsg))
    \/ \E errormsg \in TransferOutcomes : MainStep(ProjectUpdateCb(errormsg))
    \/ \E errormsg \in TransferOutcomes : MainStep(ProjectBuildCb(errormsg))
    \/ \E errormsg \in TransferOutcomes : MainStep(WebPGetCb(errormsg))
    \/ \E ok \in BOOLEAN : MainStep(WebPExtracted(ok))
    \/ MainStep(WebPTimer)

MainSpec == MainInit /\ [][MainNext]_allvars

(* ------------------------------ properties ----------------------------- *)

Has(e) == Count(log, e) > 0
IsDownload == call.op = "download"
IsFetch == call.op = "fetchVersions"
ValidChannel(c) == c.t = "string" /\ \E i \in 1..Len(CHANNELS) : CHANNELS[i] = c.s

\* The file of the call in flight, in directory dir, existed at call time.
WasIn(dir) == PathJoin(dir, Filename(call.version)) \in fsAtCall
PathIn(dir) == PathVal(PathJoin(dir, Filename(call.version)))
\* The environment variable names a cache directory.
CacheSet == env.t = "string" /\ env.s # ""
\* The directories download searches, as the claims name them.
Candidates == {call.defaultPath, ""} \cup (IF CacheSet THEN {env.s} ELSE {})

\* C1: constructing with a channel outside stable, beta, canary (absent,
\* null or empty included) always fails, so no resolver instance exists
\* whose channel is outside the fixed set.
C1_NoInstanceOutsideChannels ==
    inst # NoInstance => ValidChannel(inst.channel)

\* C2: when download finds crosswalk-<version>.zip in a searched candidate
\* directory at call time, it creates no Downloader, opens no destination
\* stream, issues no request, and the callback receives the found path.
C2_CachedMeansNoNetwork ==
    (IsDownload /\ \E d \in Candidates : WasIn(d)) =>
        /\ ~Has("downloader.new")
        /\ ~Has("handler.createStream")
        /\ ~Has("downloader.get")
        /\ pc = "done"
        /\ cb.n = 1
        /\ cb.result \in {PathIn(d) : d \in {c \in Candidates : WasIn(c)}}
        /\ ~Truthy(cb.errormsg)

C2_Witness ==
    /\ IsDownload /\ pc = "done" /\ call.defaultPath = "out"
    /\ ~WasIn("out") /\ ~WasIn("") /\ CacheSet /\ WasIn(env.s)
    /\ cb.result = PathIn("cache")

C4_FailedTransferNotFinalized ==
    (IsDownload /\ Has("transfer.failed")) =>
        /\ ~Has("handler.finish")
        /\ fs = fsAtCall
        /\ PathJoin(call.defaultPath, Filename(call.version)) \notin fs
        /\ CacheSet => PathJoin(env.s, Filename(call.version)) \notin fs
        /\ cb.n = 1
        /\ cb.result = JsNull
        /\ Truthy(cb.errormsg)

C4_Witness ==
    /\ IsDownload /\ Has("transfer.failed") /\ pc = "done"
    /\ CacheSet /\ call.defaultPath = "out"
    /\ tmp = {PathJoin("out", Filename(call.version))}

\* C5: when the transfer of a download succeeds, the file is finalized
\* exactly once, after the transfer completed and before the callback runs;
\* with the cache variable set the file is also in the cache directory; the
\* callback receives the finalized path.
C5_SuccessFinalizedOnce ==
    (IsDownload /\ Has("transfer.ok")) =>
        /\ Count(log, "handler.finish") = 1
        /\ FirstAt(log, "transfer.ok") < FirstAt(log, "handler.finish")
        /\ FirstAt(log, "handler.finish") < FirstAt(log, "callback")
        /\ cb.n = 1
        /\ PathJoin(call.defaultPath, Filename(call.version)) \in fs
        /\ CacheSet => PathJoin(env.s, Filename(call.version)) \in fs
        /\ cb.result = PathIn(call.defaultPath)
        /\ ~Truthy(cb.errormsg)

C5_Witness ==
    /\ IsDownload /\ Has("transfer.ok") /\ pc = "done"
    /\ CacheSet /\ call.defaultPath = "out"
    /\ PathJoin("cache", Filename(call.version)) \in fs \ fsAtCall
    /\ PathJoin("out", Filename(call.version)) \in fs \ fsAtCall

\* The call just ended repeats the version (and, for a download, the
\* directory) of a download that fetched and completed right before it.
FollowsDownload(op) ==
    /\ prev # NoPrev
    /\ pc = "done"
    /\ call.op = op
    /\ call.version = prev.version
    /\ op = "download" => call.defaultPath = prev.defaultPath

\* C6 as stated: after a successful download of V into D, an immediately
\* following findLocally(V) or second download of V into D returns the
\* path the first download returned, without a network request.
C6_Original ==
    /\ FollowsDownload("findLocally") => ret = prev.path
    /\ FollowsDownload("download") =>
           cb.result = prev.path /\ ~Has("downloader.get")

\* C6 as amended: the second download of V into D returns the same path
\* without a network request; findLocally(V) returns that path exactly
\* when D is the current directory or its parent.
C6_SecondLookupSamePath ==
    /\ FollowsDownload("download") =>
           /\ cb.n = 1
           /\ cb.result = prev.path
           /\ ~Has("downloader.get")
           /\ ~Has("downloader.new")
    /\ FollowsDownload("findLocally") =>
           (ret = prev.path <=> prev.defaultPath \in {"", ".", ".."})

C6_Witness ==
    /\ FollowsDownload("download")
    /\ call.defaultPath = "out"
    /\ ~CacheSet
    /\ cb.result = PathIn("out")

C6_WitnessFindLocally ==
    /\ FollowsDownload("findLocally")
    /\ prev.defaultPath = ".."
    /\ ret = prev.path

\* C7 as stated: every failure of download, a file-creation failure at
\* stream opening included, reaches the caller through the callback's
\* error message; download never throws.
C7_Original ==
    IsDownload =>
        /\ pc # "thrown"
        /\ (Has("transfer.failed") \/ Has("FileCreationFailed")) =>
               cb.n = 1 /\ cb.result = JsNull /\ Truthy(cb.errormsg)

\* C7 as amended: every transfer failure reaches the caller through the
\* callback's error message; a file-creation failure at stream opening is
\* thrown to the caller of download as FileCreationFailed, the callback is
\* not invoked and no request is issued.
C7_TransferErrorsViaCallback ==
    IsDownload =>
        /\ Has("transfer.failed") =>
               /\ pc = "done"
               /\ cb.n = 1
               /\ cb.result = JsNull
               /\ cb.errormsg.t = "string" /\ cb.errormsg.s # ""
        /\ Has("FileCreationFailed") <=> pc = "thrown"
        /\ pc = "thrown" =>
               /\ cb.n = 0
               /\ ~Has("downloader.get")
               /\ fs = fsAtCall

C7_Witness ==
    /\ IsDownload /\ pc = "done" /\ Has("transfer.failed")
    /\ cb.errormsg = Str("Download failed: ETIMEDOUT")

C7_WitnessThrown ==
    IsDownload /\ pc = "thrown" /\ Has("FileCreationFailed")

\* C8: no retry: a call of fetchVersions issues exactly one request, a call
\* of download at most one, and none follows a transfer error.
C8_NoRetry ==
    /\ IsFetch => Count(log, "downloader.get") = 1
    /\ IsDownload => Count(log, "downloader.get") <= 1
    /\ (IsFetch \/ IsDownload) =>
           /\ Count(log, "downloader.new") <= 1
           /\ Has("transfer.failed") =>
                  \A i \in 1..Len(log) :
                      i > FirstAt(log, "transfer.failed") =>
                          log[i] \notin {"downloader.get", "downloader.new"}

C8_Witness ==
    /\ IsDownload /\ pc = "done" /\ Has("transfer.failed")
    /\ Count(log, "downloader.get") = 1

\* C9: findLocally(V) returns the cwd path when crosswalk-V.zip is in the
\* current directory (also when it is in both), the parent path when it is
\* only in the parent, null when it is in neither; it never throws and
\* changes no filesystem state.
C9_FindLocallyCwdThenParent ==
    call.op = "findLocally" =>
        /\ pc = "done"
        /\ WasIn("") => ret = PathVal(<<Filename(call.version)>>)
        /\ (~WasIn("") /\ WasIn("..")) =>
               ret = PathVal(<<"..", Filename(call.version)>>)
        /\ (~WasIn("") /\ ~WasIn("..")) => ret = JsNull
        /\ fs = fsAtCall
        /\ tmp = {}

C9_Witness ==
    /\ call.op = "findLocally"
    /\ WasIn("") /\ WasIn("..")
    /\ ret = PathVal(<<Filename(call.version)>>)

\* The callback ran once with a result and no error message, or with a null
\* result and an error message.
OneCompletion ==
    /\ cb.n = 1
    /\ Count(log, "callback") = 1
    /\ \/ cb.result # JsNull /\ cb.result # JsUndefined /\ ~Truthy(cb.errormsg)
       \/ cb.result = JsNull /\ Truthy(cb.errormsg)

\* The indicator, when the call made one, was marked done before the
\* callback ran and got no update after that.
IndicatorClosed ==
    Has("indicator.create") =>
        /\ Count(log, "indicator.done") = 1
        /\ FirstAt(log, "indicator.done") < FirstAt(log, "callback")
        /\ \A i \in 1..Len(log) :
               i > FirstAt(log, "indicator.done") => log[i] # "indicator.update"

\* C10 as stated: every call of fetchVersions and of download invokes its
\* callback exactly once, with a result or with an error message, the
\* indicator being done before the callback and not updated afterwards.
C10_Original ==
    ((IsFetch \/ IsDownload) /\ pc \in {"done", "thrown"}) =>
        OneCompletion /\ IndicatorClosed

\* C10 as amended: the callback is never invoked twice; every call of
\* fetchVersions, and every call of download that does not throw
\* FileCreationFailed, completes as stated; a download that throws invokes
\* the callback zero times and leaves its indicator not done.
C10_SingleCompletion ==
    (IsFetch \/ IsDownload) =>
        /\ cb.n <= 1
        /\ cb.n = Count(log, "callback")
        /\ pc = "done" => OneCompletion /\ IndicatorClosed
        /\ pc = "transfer" => cb.n = 0
        /\ pc = "thrown" =>
               /\ IsDownload
               /\ cb.n = 0
               /\ Has("indicator.create") /\ ~Has("indicator.done")

C10_Witness ==
    /\ IsFetch /\ pc = "done"
    /\ Has("indicator.update")
    /\ cb.result = ArrayVal(<<"14.44.360.4", "15.44.384.13">>)

(* -------------------------- properties of Main ------------------------- *)

MHas(e) == Count(mlog, e) > 0
\* Nothing of the run is left to happen: it returned or threw, and no
\* handler is awaited.
MainOver == mpc \in {"quiet", "threw"}

\* C11: Main.build builds the configuration asked for: "release" when the
\* second positional argument is "release", "debug" otherwise.
C11_BuildsRequestedConfiguration ==
    (argv.cmd = "build" /\ MHas("project.build")) =>
        config = (IF argv.pos2 = "release" THEN "release" ELSE "debug")

\* C12: for every command handled by Main.run the top-level callback is
\* invoked exactly once, with 0 when the operation completed and 127
\* otherwise.
C12_RunCompletesOnce ==
    /\ mcb.n <= 1
    /\ MainOver =>
           /\ mcb.n = 1
           /\ mcb.errno = (IF \/ MHas("project.ok")
                              \/ MHas("printHelp")
                              \/ MHas("printVersion")
                           THEN MAIN_EXIT_CODE_OK ELSE MAIN_EXIT_CODE_ERROR)

\* C13: Main.build always reaches a completion, on the plain path and on
\* the --android-webp path: the callback is invoked exactly once, with 0
\* iff project.build reported no error, also when the WebP import yields no
\* path or the archive is not extracted; on the webp path project.build
\* starts only after the image conversion.
C13_BuildAlwaysCompletes ==
    (argv.cmd = "build" /\ MHas("Main.build") /\ sys.platform
         /\ sys.writable) =>
        /\ mcb.n <= 1
        /\ MainOver =>
               /\ mcb.n = 1
               /\ mcb.errno = MAIN_EXIT_CODE_OK <=> MHas("project.ok")
        /\ (Truthy(argv.webp) /\ MHas("project.build")) =>
               /\ MHas("convertWebP")
               /\ FirstAt(mlog, "convertWebP") < FirstAt(mlog, "project.build")

====
